---- MODULE Spec2Model ----
(***************************************************************************)
(* State-machine model of facet.crossfit.LearnerCrossfit                   *)
(* (src/src/facet/crossfit/_crossfit.py).                                  *)
(*                                                                         *)
(* An engine object holds the three fit-state fields _splits,              *)
(* _model_by_split and _sample.  Engines created by resize() are shallow   *)
(* copies, so they share the template pipeline, the cross-validator and    *)
(* the random state with the engine they were copied from.                 *)
(*                                                                         *)
(* Python's None is the empty set and a present value x is {x}.            *)
(*                                                                         *)
(* Spec runs the calls of one caller one after another; SpecReaders runs   *)
(* two callers' score, resize and introspection calls at once on an engine *)
(* that has been fitted; SpecTwice runs a fit next to the fit before it.   *)
(***************************************************************************)
EXTENDS Naturals, Integers, Sequences, FiniteSets, TLC

-----------------------------------------------------------------------------
(* Bounds of the model *)

\* largest number of splits the cross-validator yields in one call
MaxSplits == 2
\* draws the shared RandomState instance can hand out before fitting stops
MaxDraws == 3

\* the engine objects alive at once, the callers, the rows of a sample
Engines == {1, 2}
Callers == {1, 2}
\* the caller of the specification in which calls follow one another
Sequential == {1}
Rows == {1, 2}

None == {}
Some(x) == {x}
Get(o) == CHOOSE x \in o : TRUE

\* the sentinel default of _fit_score's _scoring argument
NO_SCORING == "<no scoring>"
\* a scoring name sklearn knows, a list of scoring names, a name it rejects
ScoringSpecs == {"single", "container", "unknown"}

\* the (scoring, train_scores, sample_weight given) arguments of the calls.
\* A call given sample_weight raises before it reads the other two, and a
\* call given a scoring that is refused raises before it reads
\* train_scores, so those calls are made with one value of what they never
\* read
ScoreArgs ==
    {a \in ScoringSpecs \X BOOLEAN \X BOOLEAN :
        /\ a[3] => a[1] = "single"
        /\ (a[3] \/ a[1] # "single") => ~a[2]}

\* Sample objects: one without and one with a weight column
Samples == {[id |-> 1, weighted |-> FALSE], [id |-> 2, weighted |-> TRUE]}

\* a column group of a sample restricted to some rows (DataFrame / Series)
Frame(s, col, rows) == [sample |-> s.id, col |-> col, rows |-> rows]
features(s) == Frame(s, "features", Rows)
target(s) == Frame(s, "target", Rows)
weight(s) == IF s.weighted THEN Some(Frame(s, "weight", Rows)) ELSE None
iloc(frame, idx) == [frame EXCEPT !.rows = idx]

\* what cv.split may yield: any sequence of at most MaxSplits (train, test)
\* pairs; the cross-validator is free to differ from call to call
Folds == {<<Rows \ {k}, {k}>> : k \in Rows}
CVOutputs == UNION {[1..n -> Folds] : n \in 0..MaxSplits}

-----------------------------------------------------------------------------
(* Pipelines *)

\* an unfitted pipeline, as pipeline.clone() returns it
clone == [fit |-> None]

\* pipeline objects: the template self.pipeline is object 0, and the k-th
\* pipeline.clone() of a call makes object k
Template == 0
new_object(made) == Len(made) + 1

\* pipeline.fit(X, y, feature_sequence, sample_weight): the fitted pipeline
\* is determined by what it was fitted on
fit_pipeline(X, y, feature_sequence, sample_weight) ==
    [fit |-> Some([X |-> X, y |-> y, feature_sequence |-> feature_sequence,
                   sample_weight |-> sample_weight])]

\* scorer(estimator, features, target, weight): a deterministic scorer's
\* result is determined by its four arguments
scorer_call(estimator, X, y, w) ==
    [estimator |-> estimator, features |-> X, target |-> y, weight |-> w]

-----------------------------------------------------------------------------
VARIABLES
    engine,            \* engine object -> its fields
    pipeline,          \* self.pipeline, the template shared by all copies
    shuffle_features,  \* self.shuffle_features
    random_state,      \* self.random_state: "int" seed or "RandomState" object
    rs_pos,            \* draws taken so far from the RandomState object
    call               \* caller -> the call it has in flight

vars == <<engine, pipeline, shuffle_features, random_state, rs_pos, call>>

\* an engine slot holding no object
NoEngine == [alive |-> FALSE, _splits |-> None, _model_by_split |-> None,
             _sample |-> None]
\* the object __init__ leaves
NewEngine == [alive |-> TRUE, _splits |-> None, _model_by_split |-> None,
              _sample |-> None]

is_fitted(eng) == eng._sample # None

IdleCall ==
    [op |-> "idle", pc |-> "idle", self |-> 0,
     _sample |-> None, _scoring |-> NO_SCORING, _train_scores |-> FALSE,
     sample_weight |-> FALSE, n_splits |-> 0,
     do_fit |-> FALSE, do_score |-> FALSE, scorer |-> None,
     splits |-> None, models |-> None, draws |-> 0,
     parameters |-> <<>>, clones |-> <<>>, results |-> <<>>,
     overtaken |-> FALSE,
     model_by_split |-> <<>>, scores |-> <<>>,
     error |-> "", ret |-> None,
     cv_calls |-> 0, was_fitted |-> FALSE, entry |-> None]

Init ==
    /\ engine = [e \in Engines |-> IF e = 1 THEN NewEngine ELSE NoEngine]
    /\ pipeline = clone
    /\ shuffle_features \in BOOLEAN
    /\ random_state \in {"int", "RandomState"}
    /\ ~shuffle_features => random_state = "int"
    /\ rs_pos = 0
    /\ call = [c \in Callers |-> IdleCall]

Idle(c) == call[c].op = "idle"
At(c, pc) == call[c].pc = pc
Self(c) == engine[call[c].self]

Goto(c, pc) == call' = [call EXCEPT ![c].pc = pc]
Raise(c, err) == call' = [call EXCEPT ![c].pc = "raised", ![c].error = err]

Config == <<shuffle_features, random_state>>

-----------------------------------------------------------------------------
(* The public operations: each starts a call on engine e *)

\* the RandomState object is shared by every copy of the engine; a fit that
\* shuffles takes up to MaxSplits draws from it
CanDraw ==
    (shuffle_features /\ random_state = "RandomState")
        => rs_pos + MaxSplits <= MaxDraws

\* was_fitted and entry record the engine as the call found it: whether it
\* was fitted and, for the calls that are to leave it alone, its fields
StartCall(c, e, rec) ==
    /\ Idle(c)
    /\ engine[e].alive
    /\ call' = [call EXCEPT ![c] =
                  [rec EXCEPT !.self = e,
                              !.was_fitted = is_fitted(engine[e]),
                              !.entry = IF rec.op = "score"
                                          THEN Some(engine[e]) ELSE None]]
    /\ UNCHANGED <<engine, pipeline, Config, rs_pos>>

\* fit(sample, **fit_params); sw: an explicit sample_weight keyword is passed
fit(c, e, s, sw) ==
    /\ CanDraw
    /\ StartCall(c, e, [IdleCall EXCEPT !.op = "fit", !.pc = "reset_sample",
                                        !._sample = Some(s),
                                        !.sample_weight = sw])

\* score(scoring, train_scores)
score(c, e, scoring, train_scores) ==
    StartCall(c, e, [IdleCall EXCEPT !.op = "score",
                                     !.pc = "check_sample_weight",
                                     !._scoring = scoring,
                                     !._train_scores = train_scores])

\* fit_score(sample, scoring, train_scores, **fit_params)
fit_score(c, e, s, scoring, train_scores, sw) ==
    /\ CanDraw
    /\ StartCall(c, e, [IdleCall EXCEPT !.op = "fit_score",
                                        !.pc = "reset_sample",
                                        !._sample = Some(s),
                                        !._scoring = scoring,
                                        !._train_scores = train_scores,
                                        !.sample_weight = sw])

-----------------------------------------------------------------------------
(* _reset_fit, one assignment per step *)

\* the assignment reaches every engine, as if resize handed out a second
\* handle on the same fields
SetField_shared(c, eng) ==
    engine' = [e \in Engines |-> IF engine[e].alive THEN eng ELSE engine[e]]

SetField(c, eng) == engine' = [engine EXCEPT ![call[c].self] = eng]

\* _reset_fit that leaves _sample in place
ResetSample_kept(c) ==
    /\ At(c, "reset_sample")
    /\ Goto(c, "reset_splits")
    /\ UNCHANGED <<engine, pipeline, Config, rs_pos>>

ResetSample(c) ==
    /\ At(c, "reset_sample")
    /\ SetField(c, [Self(c) EXCEPT !._sample = None])
    /\ Goto(c, "reset_splits")
    /\ UNCHANGED <<pipeline, Config, rs_pos>>

ResetSplits(c) ==
    /\ At(c, "reset_splits")
    /\ SetField(c, [Self(c) EXCEPT !._splits = None])
    /\ Goto(c, "reset_models")
    /\ UNCHANGED <<pipeline, Config, rs_pos>>

ResetModels(c) ==
    /\ At(c, "reset_models")
    /\ SetField(c, [Self(c) EXCEPT !._model_by_split = None])
    /\ Goto(c, "check_sample_weight")
    /\ UNCHANGED <<pipeline, Config, rs_pos>>

-----------------------------------------------------------------------------
(* _fit_score *)

\* sample_weight refused only when the sample has weights of its own
CheckSampleWeight_if_weighted(c) ==
    /\ At(c, "check_sample_weight")
    /\ IF call[c].sample_weight /\ call[c]._sample # None
            /\ Get(call[c]._sample).weighted
         THEN Raise(c, "ConfigurationError")
         ELSE Goto(c, "get_sample")
    /\ UNCHANGED <<engine, pipeline, Config, rs_pos>>

\* if sample_weight is not None: raise ValueError
CheckSampleWeight(c) ==
    /\ At(c, "check_sample_weight")
    /\ IF call[c].sample_weight
         THEN Raise(c, "ConfigurationError")
         ELSE Goto(c, "get_sample")
    /\ UNCHANGED <<engine, pipeline, Config, rs_pos>>

\* the sample read from self._sample with no check that the engine is fitted
GetSample_unchecked(c) ==
    /\ At(c, "get_sample")
    /\ LET do_fit == call[c]._sample # None
           do_score == call[c]._scoring # NO_SCORING
       IN  call' = [call EXCEPT
               ![c].do_fit = do_fit,
               ![c].do_score = do_score,
               ![c]._sample = IF do_fit THEN @ ELSE Self(c)._sample,
               ![c].pc = IF do_fit THEN "fit_template"
                                   ELSE "prepare_scoring"]
    /\ UNCHANGED <<engine, pipeline, Config, rs_pos>>

\* do_fit, do_score; a score-only call takes the sample from self.sample_,
\* which raises on an engine that is not fitted
GetSample(c) ==
    /\ At(c, "get_sample")
    /\ LET do_fit == call[c]._sample # None
           do_score == call[c]._scoring # NO_SCORING
       IN  IF ~do_fit /\ ~is_fitted(Self(c))
             THEN Raise(c, "StateError")
             ELSE call' = [call EXCEPT
                     ![c].do_fit = do_fit,
                     ![c].do_score = do_score,
                     ![c]._sample = IF do_fit THEN @ ELSE Self(c)._sample,
                     ![c].pc = IF do_fit THEN "fit_template"
                                         ELSE "prepare_scoring"]
    /\ UNCHANGED <<engine, pipeline, Config, rs_pos>>

\* fit that fits a clone to the full sample and leaves the template as it is
FitTemplate_on_clone(c) ==
    /\ At(c, "fit_template")
    /\ \/ Goto(c, "prepare_scoring")
       \/ Raise(c, "FitError")
    /\ UNCHANGED <<engine, pipeline, Config, rs_pos>>

\* pipeline.fit(X=features, y=target[, sample_weight]) on self.pipeline: the
\* template object itself is fitted to the full sample.  The learner may
\* raise; what a failed fit leaves of the template is up to the learner.
FitTemplate(c) ==
    /\ At(c, "fit_template")
    /\ LET s == Get(call[c]._sample)
       IN  \/ /\ pipeline' = fit_pipeline(features(s), target(s), None,
                                          weight(s))
              /\ Goto(c, "prepare_scoring")
           \/ /\ pipeline' \in {clone, pipeline}
              /\ Raise(c, "FitError")
    /\ UNCHANGED <<engine, Config, rs_pos>>

\* the scoring handed to check_scoring whatever its type
PrepareScoring_unchecked(c) ==
    /\ At(c, "prepare_scoring")
    /\ IF call[c].do_score
         THEN IF call[c]._scoring = "unknown"
                THEN Raise(c, "ScoringError")
                ELSE call' = [call EXCEPT
                        ![c].scorer = Some(call[c]._scoring),
                        ![c].pc = "calculate_splits"]
         ELSE call' = [call EXCEPT ![c].scorer = None,
                                   ![c].pc = "calculate_splits"]
    /\ UNCHANGED <<engine, pipeline, Config, rs_pos>>

\* a non-string Container is refused; check_scoring refuses an unknown name
PrepareScoring(c) ==
    /\ At(c, "prepare_scoring")
    /\ IF call[c].do_score
         THEN IF call[c]._scoring = "container"
                THEN Raise(c, "UnsupportedScoringError")
                ELSE IF call[c]._scoring = "unknown"
                       THEN Raise(c, "ScoringError")
                       ELSE call' = [call EXCEPT
                               ![c].scorer = Some(call[c]._scoring),
                               ![c].pc = "calculate_splits"]
         ELSE call' = [call EXCEPT ![c].scorer = None,
                                   ![c].pc = "calculate_splits"]
    /\ UNCHANGED <<engine, pipeline, Config, rs_pos>>

\* the splits asked of the cross-validator again on every call
CalculateSplits_regenerated(c) ==
    /\ At(c, "calculate_splits")
    /\ \E out \in CVOutputs :
          call' = [call EXCEPT ![c].splits = Some(out),
                               ![c].cv_calls = @ + 1,
                               ![c].pc = "begin_parallel"]
    /\ UNCHANGED <<engine, pipeline, Config, rs_pos>>

\* splits = list(self.cv.split(X, y)) when fitting, self._splits otherwise
CalculateSplits(c) ==
    /\ At(c, "calculate_splits")
    /\ IF call[c].do_fit
         THEN \/ \E out \in CVOutputs :
                    call' = [call EXCEPT ![c].splits = Some(out),
                                         ![c].cv_calls = @ + 1,
                                         ![c].pc = "begin_parallel"]
              \/ call' = [call EXCEPT ![c].cv_calls = @ + 1,
                                      ![c].pc = "raised",
                                      ![c].error = "CVError"]
         ELSE call' = [call EXCEPT ![c].splits = Self(c)._splits,
                                   ![c].pc = "begin_parallel"]
    /\ UNCHANGED <<engine, pipeline, Config, rs_pos>>

\* one _FitScoreParameters object, as _generate_parameters yields it for the
\* pair (train, test) = split and the stored model zipped with it; perm is
\* the permutation drawn for it
FitScoreParameters(do_fit, do_score, _train_scores, s, scorer, shuffle, split, model, perm) ==
    LET train == split[1]
        test == split[2]
        test_scores == do_score /\ ~_train_scores
        weigh_samples == weight(s) # None
    IN  [pipeline |-> IF do_fit THEN Some(clone) ELSE model,
         train_features |->
             IF do_fit \/ _train_scores
               THEN Some(iloc(features(s), train)) ELSE None,
         train_feature_sequence |->
             IF do_fit /\ shuffle THEN Some(perm) ELSE None,
         train_target |->
             IF do_fit THEN Some(iloc(target(s), train)) ELSE None,
         train_weight |->
             IF weigh_samples /\ (do_fit \/ _train_scores)
               THEN Some(iloc(Get(weight(s)), train)) ELSE None,
         scorer |-> scorer,
         score_train_split |-> _train_scores,
         test_features |->
             IF test_scores THEN Some(iloc(features(s), test)) ELSE None,
         test_target |->
             IF test_scores THEN Some(iloc(target(s), test)) ELSE None,
         test_weight |->
             IF weigh_samples /\ test_scores
               THEN Some(iloc(Get(weight(s)), test)) ELSE None]

\* the static method run for one work unit: (model or None, score or None)
_fit_and_score_model_for_split(parameters) ==
    LET do_fit == parameters.train_target # None
        do_score == parameters.scorer # None
        fitted == IF do_fit
                    THEN Some(fit_pipeline(Get(parameters.train_features),
                                           Get(parameters.train_target),
                                           parameters.train_feature_sequence,
                                           parameters.train_weight))
                    ELSE parameters.pipeline
        X == IF parameters.score_train_split
               THEN parameters.train_features ELSE parameters.test_features
        y == IF parameters.score_train_split
               THEN parameters.train_target ELSE parameters.test_target
        w == IF parameters.score_train_split
               THEN parameters.train_weight ELSE parameters.test_weight
    IN  [model |-> IF do_fit THEN fitted ELSE None,
         score |-> IF do_score THEN Some(scorer_call(fitted, X, y, w))
                               ELSE None]

\* results kept in the order the work units finish
StoreResult_as_completed(results, i, r) ==
    LET free == {j \in 1..Len(results) : results[j] = None}
        first == CHOOSE j \in free : \A k \in free : j <= k
    IN  [results EXCEPT ![first] = Some(r)]

\* the executor hands back the results in the order the work units were
\* submitted: the result of unit i is element i
StoreResult(results, i, r) == [results EXCEPT ![i] = Some(r)]

\* number of work units: zip(splits, models) with an endless iterator of
\* None for models when fitting
NUnits(c) ==
    LET n == Len(Get(call[c].splits))
    IN  IF call[c].do_fit THEN n
        ELSE IF Len(Get(call[c].models)) < n
               THEN Len(Get(call[c].models)) ELSE n

\* entering the generator: pipeline.feature_names_out_ needs a fitted
\* template; models = self.models() when only scoring
BeginParallel(c) ==
    /\ At(c, "begin_parallel")
    /\ IF pipeline.fit = None
         THEN Raise(c, "NotFittedError")
         ELSE IF ~call[c].do_fit /\ ~is_fitted(Self(c))
                THEN Raise(c, "StateError")
                ELSE call' = [call EXCEPT
                        ![c].models = IF call[c].do_fit THEN None
                                      ELSE Self(c)._model_by_split,
                        ![c].draws = 0,
                        ![c].pc = "parallel"]
    /\ UNCHANGED <<engine, pipeline, Config, rs_pos>>

\* the generator made from the seed once and kept between fits, as if
\* __init__ had stored check_random_state(random_state)
GenerateParameters_stream_kept(c) ==
    /\ At(c, "parallel")
    /\ Len(call[c].parameters) < NUnits(c)
    /\ rs_pos < MaxDraws
    /\ LET k == call[c]
           i == Len(k.parameters) + 1
           draw == k.do_fit /\ shuffle_features
           unit == FitScoreParameters(k.do_fit, k.do_score, k._train_scores,
                                      Get(k._sample), k.scorer,
                                      shuffle_features, Get(k.splits)[i],
                                      IF k.do_fit THEN None
                                                  ELSE Get(k.models)[i],
                                      rs_pos + 1)
       IN  /\ call' = [call EXCEPT
                 ![c].parameters = Append(@, unit),
                 ![c].results = Append(@, None)]
           /\ rs_pos' = IF draw THEN rs_pos + 1 ELSE rs_pos
    /\ UNCHANGED <<engine, pipeline, Config>>

\* the template cloned once, ahead of the loop, and the one clone handed
\* to every work unit
GenerateParameters_one_clone(c) ==
    /\ At(c, "parallel")
    /\ Len(call[c].parameters) < NUnits(c)
    /\ LET k == call[c]
           i == Len(k.parameters) + 1
           draw == k.do_fit /\ shuffle_features
           shared == random_state = "RandomState"
           perm == IF shared THEN rs_pos + 1 ELSE k.draws + 1
           unit == FitScoreParameters(k.do_fit, k.do_score, k._train_scores,
                                      Get(k._sample), k.scorer,
                                      shuffle_features, Get(k.splits)[i],
                                      IF k.do_fit THEN None
                                                  ELSE Get(k.models)[i],
                                      perm)
       IN  /\ call' = [call EXCEPT
                 ![c].parameters = Append(@, unit),
                 ![c].clones = IF k.do_fit THEN Append(@, new_object(<<>>))
                                           ELSE @,
                 ![c].results = Append(@, None),
                 ![c].draws = IF draw /\ ~shared THEN @ + 1 ELSE @]
           /\ rs_pos' = IF draw /\ shared THEN rs_pos + 1 ELSE rs_pos
    /\ UNCHANGED <<engine, pipeline, Config>>

\* the dispatching thread pulls the next work unit from the generator; a
\* fit clones the template for the unit here, and a shuffling fit draws the
\* unit's permutation here
GenerateParameters(c) ==
    /\ At(c, "parallel")
    /\ Len(call[c].parameters) < NUnits(c)
    /\ LET k == call[c]
           i == Len(k.parameters) + 1
           draw == k.do_fit /\ shuffle_features
           shared == random_state = "RandomState"
           perm == IF shared THEN rs_pos + 1 ELSE k.draws + 1
           unit == FitScoreParameters(k.do_fit, k.do_score, k._train_scores,
                                      Get(k._sample), k.scorer,
                                      shuffle_features, Get(k.splits)[i],
                                      IF k.do_fit THEN None
                                                  ELSE Get(k.models)[i],
                                      perm)
       IN  /\ call' = [call EXCEPT
                 ![c].parameters = Append(@, unit),
                 ![c].clones = IF k.do_fit THEN Append(@, new_object(@))
                                           ELSE @,
                 ![c].results = Append(@, None),
                 ![c].draws = IF draw /\ ~shared THEN @ + 1 ELSE @]
           /\ rs_pos' = IF draw /\ shared THEN rs_pos + 1 ELSE rs_pos
    /\ UNCHANGED <<engine, pipeline, Config>>

\* the permutation drawn by the worker when it runs the unit
RunTask_draws(c, i) ==
    /\ At(c, "parallel")
    /\ i \in 1..Len(call[c].parameters)
    /\ call[c].results[i] = None
    /\ LET draw == call[c].do_fit /\ shuffle_features
           unit == [call[c].parameters[i] EXCEPT
                       !.train_feature_sequence =
                           IF draw THEN Some(rs_pos + 1) ELSE None]
       IN  /\ call' = [call EXCEPT
                 ![c].results =
                      StoreResult(@, i, _fit_and_score_model_for_split(unit))]
           /\ rs_pos' = IF draw /\ rs_pos < MaxDraws THEN rs_pos + 1
                                                     ELSE rs_pos
    /\ UNCHANGED <<engine, pipeline, Config>>

\* a worker runs work unit i, whichever it is; the learner or the scorer
\* may raise, which fails the whole call.  overtaken records that a unit
\* has finished before one submitted ahead of it
RunTask(c, i) ==
    /\ At(c, "parallel")
    /\ i \in 1..Len(call[c].parameters)
    /\ call[c].results[i] = None
    /\ \/ call' = [call EXCEPT
                ![c].results =
                     StoreResult(@, i, _fit_and_score_model_for_split(
                                           call[c].parameters[i])),
                ![c].overtaken =
                     @ \/ \E j \in 1..(i - 1) : call[c].results[j] = None]
       \/ Raise(c, "TaskFailure")
    /\ UNCHANGED <<engine, pipeline, Config, rs_pos>>

\* the results taken apart without unpacking, so that no result is no error
Collect_empty_allowed(c) ==
    /\ At(c, "parallel")
    /\ Len(call[c].parameters) = NUnits(c)
    /\ \A i \in 1..NUnits(c) : call[c].results[i] # None
    /\ LET model_and_score_by_split ==
               [i \in 1..NUnits(c) |-> Get(call[c].results[i])]
       IN  call' = [call EXCEPT
               ![c].model_by_split =
                   [i \in 1..NUnits(c) |->
                       model_and_score_by_split[i].model],
               ![c].scores =
                   [i \in 1..NUnits(c) |->
                       model_and_score_by_split[i].score],
               ![c].pc = IF call[c].do_fit THEN "assign_splits"
                                           ELSE "return"]
    /\ UNCHANGED <<engine, pipeline, Config, rs_pos>>

\* model_by_split, scores = zip(*model_and_score_by_split): unpacking
\* fails when there is no result at all
Collect(c) ==
    /\ At(c, "parallel")
    /\ Len(call[c].parameters) = NUnits(c)
    /\ \A i \in 1..NUnits(c) : call[c].results[i] # None
    /\ LET model_and_score_by_split ==
               [i \in 1..NUnits(c) |-> Get(call[c].results[i])]
       IN  IF NUnits(c) = 0
             THEN Raise(c, "ValueError")
             ELSE call' = [call EXCEPT
                     ![c].model_by_split =
                         [i \in 1..NUnits(c) |->
                             model_and_score_by_split[i].model],
                     ![c].scores =
                         [i \in 1..NUnits(c) |->
                             model_and_score_by_split[i].score],
                     ![c].pc = IF call[c].do_fit THEN "assign_splits"
                                                 ELSE "return"]
    /\ UNCHANGED <<engine, pipeline, Config, rs_pos>>

\* the splits stored are asked of the cross-validator a second time
AssignSplits_resplit(c) ==
    /\ At(c, "assign_splits")
    /\ \E out \in CVOutputs :
          /\ SetField(c, [Self(c) EXCEPT !._splits = Some(out)])
          /\ call' = [call EXCEPT ![c].cv_calls = @ + 1,
                                  ![c].pc = "assign_models"]
    /\ UNCHANGED <<pipeline, Config, rs_pos>>

\* the fields assigned with _sample ahead of _splits
AssignSplits_sample_first(c) ==
    /\ At(c, "assign_splits")
    /\ SetField(c, [Self(c) EXCEPT !._sample = call[c]._sample])
    /\ Goto(c, "assign_models")
    /\ UNCHANGED <<pipeline, Config, rs_pos>>

AssignSplits(c) ==
    /\ At(c, "assign_splits")
    /\ SetField(c, [Self(c) EXCEPT !._splits = call[c].splits])
    /\ Goto(c, "assign_models")
    /\ UNCHANGED <<pipeline, Config, rs_pos>>

AssignModels(c) ==
    /\ At(c, "assign_models")
    /\ SetField(c, [Self(c) EXCEPT
                      !._model_by_split = Some(call[c].model_by_split)])
    /\ Goto(c, "assign_sample")
    /\ UNCHANGED <<pipeline, Config, rs_pos>>

AssignSample(c) ==
    /\ At(c, "assign_sample")
    /\ SetField(c, [Self(c) EXCEPT !._sample = call[c]._sample])
    /\ Goto(c, "return")
    /\ UNCHANGED <<pipeline, Config, rs_pos>>

\* _fit_score returns np.array(scores) or None; fit returns self
Return(c) ==
    /\ At(c, "return")
    /\ call' = [call EXCEPT
          ![c].ret = IF call[c].op = "fit" THEN Some(call[c].self)
                     ELSE IF call[c].do_score THEN Some(call[c].scores)
                     ELSE None,
          ![c].pc = "returned"]
    /\ UNCHANGED <<engine, pipeline, Config, rs_pos>>

-----------------------------------------------------------------------------
(* resize and the introspection operations *)

\* len(self._model_by_split), after _ensure_fitted
n_splits_of(self) == Len(Get(self._model_by_split))

\* seq[:n] for 1 <= n
Prefix(seq, n) == SubSeq(seq, 1, IF n < Len(seq) THEN n ELSE Len(seq))

\* seq[-n:]
Suffix(seq, n) == SubSeq(seq, Len(seq) - n + 1, Len(seq))

\* resize that keeps the last n_splits entries
resize_of_last(self, n_splits) ==
    IF ~is_fitted(self)
      THEN [error |-> "StateError", engine |-> self]
    ELSE IF n_splits > n_splits_of(self) \/ n_splits < 1
      THEN [error |-> "RangeError", engine |-> self]
    ELSE [error |-> "",
          engine |-> [self EXCEPT
              !._model_by_split = Some(Suffix(Get(self._model_by_split),
                                              n_splits)),
              !._splits = Some(Suffix(Get(self._splits), n_splits))]]

\* resize without the lower bound on n_splits
resize_of_unchecked_below(self, n_splits) ==
    IF ~is_fitted(self)
      THEN [error |-> "StateError", engine |-> self]
    ELSE IF n_splits > n_splits_of(self)
      THEN [error |-> "RangeError", engine |-> self]
    ELSE [error |-> "",
          engine |-> [self EXCEPT
              !._model_by_split =
                  Some(Prefix(Get(self._model_by_split),
                              IF n_splits < 0 THEN 0 ELSE n_splits)),
              !._splits =
                  Some(Prefix(Get(self._splits),
                              IF n_splits < 0 THEN 0 ELSE n_splits))]]

\* resize that cuts the models and keeps every split
resize_of_models_only(self, n_splits) ==
    IF ~is_fitted(self)
      THEN [error |-> "StateError", engine |-> self]
    ELSE IF n_splits > n_splits_of(self) \/ n_splits < 1
      THEN [error |-> "RangeError", engine |-> self]
    ELSE [error |-> "",
          engine |-> [self EXCEPT
              !._model_by_split = Some(Prefix(Get(self._model_by_split),
                                              n_splits))]]

\* resize that refuses n_splits equal to the number of fits as well
resize_of_strict_upper(self, n_splits) ==
    IF ~is_fitted(self)
      THEN [error |-> "StateError", engine |-> self]
    ELSE IF n_splits >= n_splits_of(self) \/ n_splits < 1
      THEN [error |-> "RangeError", engine |-> self]
    ELSE [error |-> "",
          engine |-> [self EXCEPT
              !._model_by_split = Some(Prefix(Get(self._model_by_split),
                                              n_splits)),
              !._splits = Some(Prefix(Get(self._splits), n_splits))]]

\* resize(n_splits) on the engine with fields self: the error raised, or the
\* shallow copy with both sequences cut to their first n_splits entries
resize_of(self, n_splits) ==
    IF ~is_fitted(self)
      THEN [error |-> "StateError", engine |-> self]
    ELSE IF n_splits > n_splits_of(self)
      THEN [error |-> "RangeError", engine |-> self]
    ELSE IF n_splits < 1
      THEN [error |-> "RangeError", engine |-> self]
    ELSE [error |-> "",
          engine |-> [self EXCEPT
              !._model_by_split = Some(Prefix(Get(self._model_by_split),
                                              n_splits)),
              !._splits = Some(Prefix(Get(self._splits), n_splits))]]

\* a call that runs in one step and ends returned or raised
Outcome(c, e, op, n, error, ret) ==
    call' = [call EXCEPT ![c] =
               [IdleCall EXCEPT !.op = op, !.self = e, !.n_splits = n,
                                !.was_fitted = is_fitted(engine[e]),
                                !.entry = Some(engine[e]),
                                !.pc = IF error = "" THEN "returned"
                                                     ELSE "raised",
                                !.error = error,
                                !.ret = IF error = "" THEN ret ELSE None]]

\* resize that cuts the engine it is called on and returns it
resize_in_place(c, e, n, t) ==
    /\ Idle(c)
    /\ engine[e].alive
    /\ t # e
    /\ LET r == resize_of(engine[e], n)
       IN  /\ Outcome(c, e, "resize", n, r.error, Some(e))
           /\ engine' = IF r.error = "" THEN [engine EXCEPT ![e] = r.engine]
                                        ELSE engine
    /\ UNCHANGED <<pipeline, Config, rs_pos>>

\* resize(n_splits); the caller keeps the new engine in slot t, a slot no
\* caller refers to
resize(c, e, n, t) ==
    /\ Idle(c)
    /\ engine[e].alive
    /\ t # e
    /\ \A d \in Callers :
          /\ call[d].self # t
          /\ (call[d].op = "resize" /\ call[d].pc = "returned")
                 => Get(call[d].ret) # t
    /\ LET r == resize_of(engine[e], n)
       IN  /\ Outcome(c, e, "resize", n, r.error, Some(t))
           /\ engine' = IF r.error = "" THEN [engine EXCEPT ![t] = r.engine]
                                        ELSE engine
    /\ UNCHANGED <<pipeline, Config, rs_pos>>

\* the property n_splits_
n_splits_(c, e) ==
    /\ Idle(c)
    /\ engine[e].alive
    /\ IF is_fitted(engine[e])
         THEN Outcome(c, e, "n_splits_", 0, "",
                      Some(n_splits_of(engine[e])))
         ELSE Outcome(c, e, "n_splits_", 0, "StateError", None)
    /\ UNCHANGED <<engine, pipeline, Config, rs_pos>>

\* splits(): iter(self._splits)
splits(c, e) ==
    /\ Idle(c)
    /\ engine[e].alive
    /\ IF is_fitted(engine[e])
         THEN Outcome(c, e, "splits", 0, "", engine[e]._splits)
         ELSE Outcome(c, e, "splits", 0, "StateError", None)
    /\ UNCHANGED <<engine, pipeline, Config, rs_pos>>

\* models(): iter(self._model_by_split)
models(c, e) ==
    /\ Idle(c)
    /\ engine[e].alive
    /\ IF is_fitted(engine[e])
         THEN Outcome(c, e, "models", 0, "", engine[e]._model_by_split)
         ELSE Outcome(c, e, "models", 0, "StateError", None)
    /\ UNCHANGED <<engine, pipeline, Config, rs_pos>>

\* the caller takes the value returned or the exception raised
Finish(c) ==
    /\ call[c].pc \in {"returned", "raised"}
    /\ call' = [call EXCEPT ![c] = IdleCall]
    /\ UNCHANGED <<engine, pipeline, Config, rs_pos>>

-----------------------------------------------------------------------------
Next ==
    \E c \in Sequential :
        \/ \E e \in Engines, s \in Samples, sw \in BOOLEAN : fit(c, e, s, sw)
        \/ \E e \in Engines, a \in ScoreArgs :
               ~a[3] /\ score(c, e, a[1], a[2])
        \/ \E e \in Engines, s \in Samples, a \in ScoreArgs :
               fit_score(c, e, s, a[1], a[2], a[3])
        \/ \E e \in Engines, t \in Engines, n \in -1..(MaxSplits + 1) :
               resize(c, e, n, t)
        \/ \E e \in Engines : n_splits_(c, e)
        \/ \E e \in Engines : splits(c, e)
        \/ \E e \in Engines : models(c, e)
        \/ ResetSample(c)
        \/ ResetSplits(c)
        \/ ResetModels(c)
        \/ CheckSampleWeight(c)
        \/ GetSample(c)
        \/ FitTemplate(c)
        \/ PrepareScoring(c)
        \/ CalculateSplits(c)
        \/ BeginParallel(c)
        \/ GenerateParameters(c)
        \/ \E i \in 1..MaxSplits : RunTask(c, i)
        \/ Collect(c)
        \/ AssignSplits(c)
        \/ AssignModels(c)
        \/ AssignSample(c)
        \/ Return(c)
        \/ Finish(c)

Spec == Init /\ [][Next]_vars

-----------------------------------------------------------------------------
(* What fit and score compute, as functions of what they are given *)

\* the scores score(scoring, train_scores) returns on the fitted engine
\* with fields self: one score-only work unit per stored split and model
score_of(self, scoring, train_scores) ==
    [i \in 1..Len(Get(self._splits)) |->
        _fit_and_score_model_for_split(
            FitScoreParameters(FALSE, TRUE, train_scores, Get(self._sample),
                               Some(scoring), shuffle_features,
                               Get(self._splits)[i],
                               Get(self._model_by_split)[i], 0)).score]

\* the fields fit(s) stores when cv.split yields cv_splits and the draws
\* for the work units are perms: one fit-only work unit per split
fit_of(self, s, cv_splits, perms) ==
    [self EXCEPT
        !._splits = Some(cv_splits),
        !._model_by_split = Some(
            [i \in 1..Len(cv_splits) |->
                _fit_and_score_model_for_split(
                    FitScoreParameters(TRUE, FALSE, FALSE, s, None,
                                       shuffle_features, cv_splits[i],
                                       None, perms[i])).model]),
        !._sample = Some(s)]

-----------------------------------------------------------------------------
(* Properties *)

Fitting == {"fit", "fit_score"}
Over == {"returned", "raised"}

\* no fit or fit_score is at work on engine e
NoFitInFlight(e) ==
    \A c \in Callers :
        (call[c].self = e /\ call[c].op \in Fitting) => call[c].pc \in Over

SplitsOf(eng) == Get(eng._splits)
ModelsOf(eng) == Get(eng._model_by_split)

\* C1: between the calls of any sequence of fit, fit_score, score and resize
\* calls, on the engine and on the engines resize returned, _splits and
\* _model_by_split are both absent and the engine is unfit, or both are
\* present with the same length and the engine is fit.
C1_SplitsAndModelsSameLength ==
    \A e \in Engines :
        NoFitInFlight(e) =>
            \/ /\ engine[e]._splits = None
               /\ engine[e]._model_by_split = None
               /\ ~is_fitted(engine[e])
            \/ /\ engine[e]._splits # None
               /\ engine[e]._model_by_split # None
               /\ Len(SplitsOf(engine[e])) = Len(ModelsOf(engine[e]))
               /\ is_fitted(engine[e])

\* an engine with two splits next to a resized copy with one, after a call
\* that raised
C1_Witness ==
    /\ call[1].pc = "raised"
    /\ is_fitted(engine[1]) /\ Len(SplitsOf(engine[1])) = 2
    /\ is_fitted(engine[2]) /\ Len(SplitsOf(engine[2])) = 1

\* model is a pipeline fitted on the train rows of split, taken from the
\* features, the target and the weights of sample s
FittedOnTrain(model, s, split) ==
    /\ model # None
    /\ Get(model).fit # None
    /\ LET f == Get(Get(model).fit)
       IN  /\ f.X = Frame(s, "features", split[1])
           /\ f.y = Frame(s, "target", split[1])
           /\ f.sample_weight = IF s.weighted
                                  THEN Some(Frame(s, "weight", split[1]))
                                  ELSE None

\* C2: when fit or fit_score has returned, the model at each position of
\* _model_by_split is the pipeline fitted on the train rows of the split at
\* that position of _splits, in whatever order the work units finished.
C2_ModelsMatchSplits ==
    \A c \in Callers :
        (call[c].op \in Fitting /\ call[c].pc = "returned") =>
            LET eng == Self(c)
                s == Get(call[c]._sample)
            IN  /\ eng._sample = Some(s)
                /\ eng._splits # None
                /\ eng._model_by_split # None
                /\ Len(ModelsOf(eng)) = Len(SplitsOf(eng))
                /\ \A i \in 1..Len(SplitsOf(eng)) :
                       FittedOnTrain(ModelsOf(eng)[i], s, SplitsOf(eng)[i])

\* a fit over two different splits has returned, the second unit having
\* finished before the first
C2_Witness ==
    /\ call[1].op \in Fitting
    /\ call[1].pc = "returned"
    /\ call[1].overtaken
    /\ SplitsOf(Self(1))[1] # SplitsOf(Self(1))[2]

\* C3: when fit or fit_score, called on a fitted engine, has raised, the
\* engine is unfit: _splits, _model_by_split and _sample are all absent.
C3_FailedFitLeavesUnfit ==
    \A c \in Callers :
        (call[c].op \in Fitting /\ call[c].was_fitted
            /\ call[c].pc = "raised") =>
            /\ Self(c)._splits = None
            /\ Self(c)._model_by_split = None
            /\ Self(c)._sample = None

\* a fit on a fitted engine fails in a work unit after another unit of the
\* same call has produced its model
C3_Witness ==
    /\ call[1].op \in Fitting
    /\ call[1].was_fitted
    /\ call[1].pc = "raised"
    /\ call[1].error = "TaskFailure"
    /\ \E i \in 1..Len(call[1].results) : call[1].results[i] # None

\* C4: all through a score call on a fitted engine, up to its return or its
\* exception, the engine's fields are those the call found, cv.split has
\* not been called, and the splits being scored are the engine's own.
C4_ScoreLeavesFitAlone ==
    \A c \in Callers :
        (call[c].op = "score" /\ call[c].was_fitted) =>
            /\ Self(c) = Get(call[c].entry)
            /\ call[c].cv_calls = 0
            /\ call[c].splits # None =>
                   call[c].splits = Get(call[c].entry)._splits

\* a score call over two splits has returned its scores
C4_Witness ==
    /\ call[1].op = "score"
    /\ call[1].was_fitted
    /\ call[1].pc = "returned"
    /\ Len(Get(call[1].ret)) = 2

\* the engine a resize call found, and the one it returned
Found(c) == Get(call[c].entry)
Returned(c) == engine[Get(call[c].ret)]
InRange(c) ==
    1 <= call[c].n_splits /\ call[c].n_splits <= Len(ModelsOf(Found(c)))

\* C5: resize(n) on a fitted engine with 1 <= n <= n_splits_ returns an
\* engine whose splits and models are the first n splits and the first n
\* models of the original, in order, and whose n_splits_ is n.
C5_ResizeKeepsFirstN ==
    \A c \in Callers :
        (call[c].op = "resize" /\ call[c].was_fitted /\ InRange(c)) =>
            /\ call[c].pc = "returned"
            /\ LET n == call[c].n_splits
                   r == Returned(c)
               IN  /\ is_fitted(r)
                   /\ Len(SplitsOf(r)) = n
                   /\ Len(ModelsOf(r)) = n
                   /\ n_splits_of(r) = n
                   /\ \A i \in 1..n :
                          /\ SplitsOf(r)[i] = SplitsOf(Found(c))[i]
                          /\ ModelsOf(r)[i] = ModelsOf(Found(c))[i]

\* resize(1) has returned on an engine whose two splits, and two models,
\* differ
C5_Witness ==
    /\ call[1].op = "resize"
    /\ call[1].pc = "returned"
    /\ call[1].n_splits = 1
    /\ Len(SplitsOf(Found(1))) = 2
    /\ SplitsOf(Found(1))[1] # SplitsOf(Found(1))[2]
    /\ ModelsOf(Found(1))[1] # ModelsOf(Found(1))[2]

C7_ResizeRange ==
    \A c \in Callers :
        (call[c].op = "resize" /\ call[c].was_fitted) =>
            IF InRange(c)
              THEN call[c].pc = "returned" /\ call[c].error = ""
              ELSE call[c].pc = "raised" /\ call[c].error = "RangeError"

\* resize(0) has raised on a fitted engine
C7_Witness ==
    /\ call[1].op = "resize"
    /\ call[1].was_fitted
    /\ call[1].n_splits = 0
    /\ call[1].pc = "raised"

\* C8: on an engine that is not fitted, score, splits, models and n_splits_
\* end in the state error and in nothing else; the engine stays unfit, no
\* scorer is resolved, cv.split is not called and no work unit is built.
C8_UnfitStateError ==
    \A c \in Callers :
        (call[c].op \in {"score", "splits", "models", "n_splits_"}
            /\ ~call[c].was_fitted) =>
            /\ call[c].pc \in {"check_sample_weight", "get_sample", "raised"}
            /\ call[c].pc = "raised" => call[c].error = "StateError"
            /\ Self(c)._sample = None
            /\ Self(c)._splits = None
            /\ Self(c)._model_by_split = None
            /\ call[c].scorer = None
            /\ call[c].cv_calls = 0
            /\ call[c].parameters = <<>>

\* score has raised the state error on an engine that is not fitted
C8_Witness ==
    /\ call[1].op = "score"
    /\ ~call[1].was_fitted
    /\ call[1].pc = "raised"
    /\ call[1].error = "StateError"

\* the rows of split a score call with train_scores = ts is to score on
Selected(split, ts) == IF ts THEN split[1] ELSE split[2]

\* C9: in a score call on a fitted engine the scorer is called, for each
\* split i, with stored model i and with the features, the target and (for
\* a weighted sample) the weights of the selected rows of split i: the
\* train rows when train_scores is true, the test rows when it is false.
C9_ScorerGetsSelectedSlice ==
    \A c \in Callers :
        (call[c].op = "score" /\ call[c].was_fitted) =>
            \A i \in 1..Len(call[c].results) :
                call[c].results[i] # None =>
                    LET got == Get(call[c].results[i]).score
                        s == Get(Found(c)._sample)
                        rows == Selected(SplitsOf(Found(c))[i],
                                         call[c]._train_scores)
                    IN  /\ got # None
                        /\ Get(got).estimator = ModelsOf(Found(c))[i]
                        /\ Get(got).features =
                               Some(Frame(s, "features", rows))
                        /\ Get(got).target = Some(Frame(s, "target", rows))
                        /\ Get(got).weight =
                               IF s.weighted
                                 THEN Some(Frame(s, "weight", rows))
                                 ELSE None

\* the work units' draws, in split order
PermsOf(c) ==
    [i \in 1..Len(call[c].parameters) |->
        IF call[c].parameters[i].train_feature_sequence = None THEN 0
        ELSE Get(call[c].parameters[i].train_feature_sequence)]

\* C10: when fit_score(sample, scoring, train_scores) has returned, the
\* engine has the fields fit(sample) stores for the same splits and draws,
\* and the scores returned are those score(scoring, train_scores) returns
\* on that engine.
C10_FitScoreIsFitThenScore ==
    \A c \in Callers :
        (call[c].op = "fit_score" /\ call[c].pc = "returned") =>
            /\ Self(c) = fit_of(Self(c), Get(call[c]._sample),
                                Get(call[c].splits), PermsOf(c))
            /\ call[c].ret = Some(score_of(Self(c), call[c]._scoring,
                                           call[c]._train_scores))

\* C11 as stated: the template is never mutated after construction, it
\* stays the unfitted pipeline __init__ stored.
C11_TemplateStaysUnfit == pipeline = clone

\* the template fitted to the whole of sample s
FittedOnFull(s) == fit_pipeline(features(s), target(s), None, weight(s))

\* C11, amended: the template is mutated by fit and fit_score alone, which
\* fit the template itself to the full sample before the splits are
\* computed; score, resize and the introspection calls never change it,
\* and every work unit of a fitting call carries an unfitted clone, so all
\* per-split fitting is done on clones.
C11_TemplateFittedOnlyByFit ==
    [][/\ pipeline' # pipeline =>
             \E c \in Callers :
                 call[c].op \in Fitting /\ At(c, "fit_template")
       /\ \A c \in Callers :
             /\ (At(c, "fit_template") /\ call'[c].pc = "prepare_scoring")
                    => pipeline' = FittedOnFull(Get(call[c]._sample))
             /\ (call'[c] # call[c] /\ call[c].op \notin Fitting
                    /\ call'[c].op \notin Fitting) => pipeline' = pipeline
             /\ call'[c].do_fit =>
                    \A i \in 1..Len(call'[c].parameters) :
                        call'[c].parameters[i].pipeline = Some(clone)
             /\ \A i \in 1..Len(call'[c].results) :
                    (call'[c].do_fit /\ call'[c].results[i] # None) =>
                        Get(call'[c].results[i]).model # Some(pipeline')]_vars

\* a score call has returned on an engine whose template fit has fitted to
\* the full sample, next to models fitted on clones
C11_Witness ==
    /\ call[1].op = "score"
    /\ call[1].pc = "returned"
    /\ pipeline = FittedOnFull(Get(Self(1)._sample))
    /\ \A i \in 1..Len(ModelsOf(Self(1))) : ModelsOf(Self(1))[i] # Some(pipeline)

\* C12: a score call that returns on a fitted engine returns as many scores
\* as the engine has splits and models (n_splits_, so n on an engine that
\* resize(n) returned), and score i is the scorer's result for stored model
\* i on the selected rows of stored split i, in whatever order the work
\* units finished.
C12_ScorePerSplitInOrder ==
    \A c \in Callers :
        (call[c].op = "score" /\ call[c].was_fitted
            /\ call[c].pc = "returned") =>
            LET eng == Found(c)
                s == Get(eng._sample)
                scores == Get(call[c].ret)
            IN  /\ Len(scores) = n_splits_of(eng)
                /\ Len(scores) = Len(SplitsOf(eng))
                /\ \A i \in 1..Len(scores) :
                      /\ scores[i] # None
                      /\ Get(scores[i]).estimator = ModelsOf(eng)[i]
                      /\ Get(scores[i]).features =
                             Some(Frame(s, "features",
                                        Selected(SplitsOf(eng)[i],
                                                 call[c]._train_scores)))

\* a score call on the engine resize returned has returned two scores for
\* two different splits, the second unit having finished before the first
C12_Witness ==
    /\ call[1].op = "score"
    /\ call[1].self = 2
    /\ call[1].pc = "returned"
    /\ call[1].overtaken
    /\ Len(Get(call[1].ret)) = 2
    /\ SplitsOf(Found(1))[1] # SplitsOf(Found(1))[2]

-----------------------------------------------------------------------------
(* Concurrent readers of an engine that has been fitted *)

\* what a cross-validator yields that takes the rows as test rows in turn,
\* n times
InTurn(n) ==
    [i \in 1..n |->
        LET k == ((i - 1) % Cardinality(Rows)) + 1 IN <<Rows \ {k}, {k}>>]

\* the state a first fit(s) leaves when it has returned and its caller has
\* taken the result: cv.split yielded the n splits out, unit i got draw i
\* of the RandomState object the engine was built with
InitFitted ==
    /\ shuffle_features = TRUE
    /\ random_state = "RandomState"
    /\ call = [c \in Callers |-> IdleCall]
    /\ \E s \in Samples, n \in 1..MaxSplits :
          LET out == InTurn(n)
          IN  /\ engine = [e \in Engines |->
                     IF e = 1
                       THEN fit_of(NewEngine, s, out, [i \in 1..n |-> i])
                       ELSE NoEngine]
              /\ pipeline = FittedOnFull(s)
              /\ rs_pos = n

\* the callers run score, resize and the introspection operations, their
\* steps interleaved in any order
NextReaders ==
    \E c \in Callers :
        \/ \E e \in Engines, a \in ScoreArgs :
               ~a[3] /\ score(c, e, a[1], a[2])
        \/ \E e \in Engines, t \in Engines, n \in -1..(MaxSplits + 1) :
               resize(c, e, n, t)
        \/ \E e \in Engines : n_splits_(c, e)
        \/ \E e \in Engines : splits(c, e)
        \/ \E e \in Engines : models(c, e)
        \/ CheckSampleWeight(c)
        \/ GetSample(c)
        \/ PrepareScoring(c)
        \/ CalculateSplits(c)
        \/ BeginParallel(c)
        \/ GenerateParameters(c)
        \/ \E i \in 1..MaxSplits : RunTask(c, i)
        \/ Collect(c)
        \/ Return(c)
        \/ Finish(c)

SpecReaders == InitFitted /\ [][NextReaders]_vars

\* C13: two score calls on the same fitted engine with the same scoring and
\* the same train_scores, no fit between them, return the same sequence of
\* scores, whatever cv.split would yield if it were asked again.
C13_ScoreTwiceSame ==
    \A c, d \in Callers :
        (/\ call[c].op = "score" /\ call[c].pc = "returned"
         /\ call[d].op = "score" /\ call[d].pc = "returned"
         /\ call[c].self = call[d].self
         /\ call[c]._scoring = call[d]._scoring
         /\ call[c]._train_scores = call[d]._train_scores)
            => call[c].ret = call[d].ret

\* two score calls with the same arguments have returned on an engine with
\* two different splits
C13_Witness ==
    /\ call[1].op = "score" /\ call[1].pc = "returned"
    /\ call[2].op = "score" /\ call[2].pc = "returned"
    /\ call[1].self = call[2].self
    /\ call[1]._scoring = call[2]._scoring
    /\ call[1]._train_scores = call[2]._train_scores
    /\ Len(SplitsOf(Self(1))) = 2
    /\ SplitsOf(Self(1))[1] # SplitsOf(Self(1))[2]

\* C14: when fit(sample) has returned, cv.split has been called exactly
\* once in the call, _splits is the sequence it yielded (same pairs, same
\* order), _sample is sample, the engine is fitted with as many models as
\* splits were yielded, and the value returned is the engine itself.
C14_FitStoresSplitsVerbatim ==
    \A c \in Callers :
        (call[c].op = "fit" /\ call[c].pc = "returned") =>
            /\ call[c].cv_calls = 1
            /\ call[c].splits # None
            /\ Self(c)._splits = call[c].splits
            /\ Self(c)._sample = call[c]._sample
            /\ is_fitted(Self(c))
            /\ Self(c)._model_by_split # None
            /\ Len(ModelsOf(Self(c))) = Len(Get(call[c].splits))
            /\ call[c].ret = Some(call[c].self)

\* fit has returned on an engine that was fitted before, the cross-validator
\* having yielded two different splits
C14_Witness ==
    /\ call[1].op = "fit"
    /\ call[1].pc = "returned"
    /\ call[1].was_fitted
    /\ Len(Get(call[1].splits)) = 2
    /\ Get(call[1].splits)[1] # Get(call[1].splits)[2]

-----------------------------------------------------------------------------
(* A fit next to the fit before it *)

\* the call of caller 1 is a fit that has returned, its record kept
Held == call[1].op = "fit" /\ call[1].pc = "returned"

\* the engine is built to shuffle the features
InitTwice == Init /\ shuffle_features

\* the cross-validator takes the rows as test rows in turn; how many splits
\* it yields may differ from call to call
SplitsInTurn(c) ==
    call'[c].splits # None =>
        \E n \in 0..MaxSplits : call'[c].splits = Some(InTurn(n))

\* caller 1 runs fit and resize calls one after another; once a fit of
\* caller 1 has returned, caller 2 may run a fit, on the same engine or on
\* another, while caller 1 holds on to the call it made
NextTwice ==
    \/ \E e \in Engines, s \in Samples :
           Idle(2) /\ fit(1, e, s, FALSE)
    \/ \E e \in Engines, s \in Samples :
           Held /\ fit(2, e, s, FALSE)
    \/ \E e \in Engines, t \in Engines, n \in 1..MaxSplits :
           Idle(2) /\ resize(1, e, n, t)
    \/ Idle(2) /\ Finish(1)
    \/ Finish(2)
    \/ \E c \in Callers :
           \/ ResetSample(c)
           \/ ResetSplits(c)
           \/ ResetModels(c)
           \/ CheckSampleWeight(c)
           \/ GetSample(c)
           \/ FitTemplate(c)
           \/ PrepareScoring(c)
           \/ CalculateSplits(c) /\ SplitsInTurn(c)
           \/ BeginParallel(c)
           \/ GenerateParameters(c)
           \/ \E i \in 1..MaxSplits : RunTask(c, i)
           \/ Collect(c)
           \/ AssignSplits(c)
           \/ AssignModels(c)
           \/ AssignSample(c)
           \/ Return(c)

SpecTwice == InitTwice /\ [][NextTwice]_vars

\* C15: with shuffle_features set and an integer seed as random_state, two
\* fits on the same sample, on one engine or on two, give the work unit of
\* every split position the same permutation of the features.
C15_SameSeedSamePermutations ==
    (shuffle_features /\ random_state = "int") =>
        \A c, d \in Callers :
            (/\ call[c].op = "fit" /\ call[d].op = "fit"
             /\ call[c]._sample = call[d]._sample) =>
                \A i \in 1..Len(call[c].parameters) :
                    i <= Len(call[d].parameters) =>
                        /\ call[c].parameters[i].train_feature_sequence # None
                        /\ call[c].parameters[i].train_feature_sequence
                             = call[d].parameters[i].train_feature_sequence

\* with an integer seed, a fit and a re-fit of the same engine on the same
\* sample have both returned, each over two splits
C15_Witness ==
    /\ shuffle_features /\ random_state = "int"
    /\ Held
    /\ call[2].op = "fit" /\ call[2].pc = "returned"
    /\ call[1].self = call[2].self
    /\ call[1]._sample = call[2]._sample
    /\ Len(call[1].parameters) = 2
    /\ Len(call[2].parameters) = 2

\* the exception a score call raises when it is alone on a fitted engine
AloneError(scoring) ==
    IF scoring = "container" THEN "UnsupportedScoringError"
    ELSE IF scoring = "unknown" THEN "ScoringError"
    ELSE "TaskFailure"

C18_SampleWeightRefused ==
    \A c \in Callers :
        LET k == call[c]
        IN  (k.op \in Fitting /\ k.sample_weight) =>
                /\ k.pc \in {"reset_sample", "reset_splits", "reset_models",
                              "check_sample_weight", "raised"}
                /\ k.pc = "raised" => k.error = "ConfigurationError"
                /\ k.cv_calls = 0
                /\ k.splits = None
                /\ k.parameters = <<>>
                /\ k.results = <<>>

\* fit with a sample_weight keyword and a sample without a weight column
\* has raised the configuration error while the template is still unfitted
C18_Witness ==
    /\ call[1].op = "fit"
    /\ call[1].sample_weight
    /\ ~Get(call[1]._sample).weighted
    /\ call[1].pc = "raised"
    /\ call[1].error = "ConfigurationError"
    /\ pipeline = clone

ModelOfUnit(k, i) == Get(Get(k.results[i]).model)

\* C20: in a fit or fit_score call of an engine that shuffles, work unit i
\* carries the i-th permutation drawn in the call, drawn when the unit is
\* built and so before a worker has it; a worker's step draws nothing and
\* rebuilds no unit, and the model of unit i is fitted with the permutation
\* the unit carries in whatever order the workers finish.  A call of an
\* engine that does not shuffle, and every score call, builds units that
\* carry no permutation.
C20_PermutationsDrawnInOrder ==
    [][\A c \in Callers :
          LET k == call'[c]
              n == Len(k.parameters)
              first == IF random_state = "RandomState" THEN rs_pos' - n
                                                        ELSE 0
              worker == /\ Len(k.results) = Len(call[c].results)
                        /\ k.results # call[c].results
          IN  /\ \A i \in 1..n :
                    /\ k.parameters[i].train_feature_sequence =
                           IF k.do_fit /\ shuffle_features
                             THEN Some(first + i) ELSE None
                    /\ (k.do_fit /\ k.results[i] # None) =>
                           Get(ModelOfUnit(k, i).fit).feature_sequence =
                               k.parameters[i].train_feature_sequence
              /\ worker =>
                    /\ rs_pos' = rs_pos
                    /\ k.draws = call[c].draws
                    /\ k.parameters = call[c].parameters]_vars

\* an engine that shuffles with a RandomState object has been fitted over
\* two splits, the second unit finishing before the first, and the units
\* carry the two draws of the call in split order
C20_Witness ==
    /\ call[1].op \in Fitting
    /\ call[1].pc = "returned"
    /\ shuffle_features
    /\ random_state = "RandomState"
    /\ call[1].overtaken
    /\ PermsOf(1) = <<rs_pos - 1, rs_pos>>

\* C21: in a fit or fit_score call every work unit carries an unfitted clone
\* of the template made for that unit, so no two units carry the same
\* pipeline object and none carries the template; in a score call unit i
\* carries stored model i, and its task scores that model and returns no
\* model in its place.  A worker's step changes no engine's fields, nor
\* the template, nor the random state, nor a work unit, and its result is
\* computed from the work unit alone.
C21_UnitsOwnTheirPipeline ==
    [][\A c \in Callers :
          LET k == call'[c]
              n == Len(k.parameters)
              worker == /\ Len(k.results) = Len(call[c].results)
                        /\ k.results # call[c].results
          IN  /\ k.do_fit =>
                    /\ Len(k.clones) = n
                    /\ \A i \in 1..n :
                          /\ k.parameters[i].pipeline = Some(clone)
                          /\ k.clones[i] # Template
                          /\ \A j \in 1..n : j # i => k.clones[j] # k.clones[i]
              /\ (k.op = "score" /\ n > 0) =>
                    /\ k.clones = <<>>
                    /\ \A i \in 1..n :
                          /\ k.parameters[i].pipeline =
                                 ModelsOf(engine'[k.self])[i]
                          /\ k.results[i] # None =>
                                 /\ Get(k.results[i]).model = None
                                 /\ Get(Get(k.results[i]).score).estimator
                                        = ModelsOf(engine'[k.self])[i]
              /\ worker =>
                    /\ engine' = engine
                    /\ pipeline' = pipeline
                    /\ rs_pos' = rs_pos
                    /\ k.parameters = call[c].parameters
                    /\ \A i \in 1..n :
                          k.results[i] # call[c].results[i] =>
                              k.results[i] =
                                  Some(_fit_and_score_model_for_split(
                                           call[c].parameters[i]))]_vars

\* a fit has built its two work units, each with a clone of its own, and the
\* worker of the second has finished before the worker of the first
C21_Witness ==
    /\ call[1].op \in Fitting
    /\ call[1].pc = "parallel"
    /\ call[1].clones = <<1, 2>>
    /\ call[1].results[1] = None
    /\ call[1].results[2] # None

\* C22: in every state, the states between the single assignments of
\* _reset_fit and of a completing fit or fit_score included, an engine with
\* _sample present (is_fitted) has _splits and _model_by_split present and
\* equally long.  The reset clears _sample first, then _splits, then
\* _model_by_split; a completing fit assigns _splits, then
\* _model_by_split, then _sample.
C22_FittedImpliesBothPresent ==
    /\ \A e \in Engines :
          /\ is_fitted(engine[e]) <=> engine[e]._sample # None
          /\ is_fitted(engine[e]) =>
                /\ engine[e]._splits # None
                /\ engine[e]._model_by_split # None
                /\ Len(SplitsOf(engine[e])) = Len(ModelsOf(engine[e]))
    /\ \A c \in Callers :
          call[c].op \in Fitting =>
              /\ At(c, "reset_splits") => Self(c)._sample = None
              /\ At(c, "reset_models") =>
                    Self(c)._sample = None /\ Self(c)._splits = None
              /\ At(c, "assign_splits") =>
                    /\ Self(c)._sample = None
                    /\ Self(c)._splits = None
                    /\ Self(c)._model_by_split = None
              /\ At(c, "assign_models") =>
                    /\ Self(c)._sample = None
                    /\ Self(c)._splits = call[c].splits
                    /\ Self(c)._model_by_split = None
              /\ At(c, "assign_sample") =>
                    /\ Self(c)._sample = None
                    /\ Self(c)._splits = call[c].splits
                    /\ Self(c)._model_by_split = Some(call[c].model_by_split)

\* a re-fit is between two assignments: in its reset with _sample cleared
\* and the old splits and models still there
C22_Witness ==
    /\ call[1].op \in Fitting
    /\ call[1].was_fitted
    /\ At(1, "reset_splits")
    /\ ~is_fitted(Self(1))
    /\ Self(1)._splits # None
    /\ Self(1)._model_by_split # None

\* C23: every fitted engine has at least one split and one model, so its
\* n_splits_ is at least 1: a fit or fit_score call to which cv.split has
\* yielded no split assigns no field and does not return, it raises and
\* leaves the engine unfit; and no engine resize made has no split.
C23_AtLeastOneSplit ==
    /\ \A e \in Engines :
          is_fitted(engine[e]) =>
              /\ Len(SplitsOf(engine[e])) >= 1
              /\ n_splits_of(engine[e]) >= 1
    /\ \A c \in Callers :
          (call[c].op \in Fitting /\ call[c].splits = Some(<<>>)) =>
              /\ call[c].pc \in {"begin_parallel", "parallel", "raised"}
              /\ call[c].pc = "raised" => call[c].error = "ValueError"
              /\ Self(c)._sample = None
              /\ Self(c)._splits = None
              /\ Self(c)._model_by_split = None
    /\ \A c \in Callers :
          (call[c].op = "resize" /\ call[c].pc = "returned") =>
              n_splits_of(Returned(c)) >= 1

\* a re-fit to which cv.split yielded no split has raised and left the
\* engine unfit
C23_Witness ==
    /\ call[1].op \in Fitting
    /\ call[1].was_fitted
    /\ call[1].splits = Some(<<>>)
    /\ call[1].pc = "raised"
    /\ call[1].error = "ValueError"
    /\ ~is_fitted(Self(1))

\* the splits and models of two engines are the same
SameFits(a, b) ==
    a._splits = b._splits /\ a._model_by_split = b._model_by_split

\* C24: when e.resize(n) has returned r on a fitted engine e, then for every
\* m from 1 to n, r.resize(m) succeeds with the splits and models of
\* e.resize(m); for every k above n, r.resize(k) raises the range error,
\* also when k is no more than e's n_splits_; and when n is e's n_splits_,
\* r has the splits and models of e.
C24_ResizeComposesByPrefix ==
    \A c \in Callers :
        (call[c].op = "resize" /\ call[c].pc = "returned") =>
            LET e == Found(c)
                r == Returned(c)
                n == call[c].n_splits
            IN  /\ 1 <= n /\ n <= n_splits_of(e)
                /\ n_splits_of(r) = n
                /\ \A m \in 1..n :
                      /\ resize_of(r, m).error = ""
                      /\ resize_of(e, m).error = ""
                      /\ SameFits(resize_of(r, m).engine,
                                  resize_of(e, m).engine)
                /\ \A k \in (n + 1)..(MaxSplits + 1) :
                      resize_of(r, k).error = "RangeError"
                /\ n = n_splits_of(e) => SameFits(r, e)

\* resize(1) has returned on an engine with two different splits, so that
\* resize(2) is in range on the engine and out of range on the copy
C24_Witness ==
    /\ call[1].op = "resize"
    /\ call[1].pc = "returned"
    /\ call[1].n_splits = 1
    /\ n_splits_of(Found(1)) = 2
    /\ resize_of(Found(1), 2).error = ""
    /\ resize_of(Returned(1), 2).error = "RangeError"

====
